---- MODULE Spec2Model ----
(***************************************************************************)
(* Model of the four cost scripts of the repository:                       *)
(*   elevator_ground_cost.py, fuel_calc.py, water_schedule_cost.py and     *)
(*   plot_water_cost.py.                                                   *)
(*                                                                         *)
(* Every number the scripts compute is a Python float, that is an IEEE-754 *)
(* binary64 value.  The model keeps that arithmetic: a float is a sign, a  *)
(* 53-bit significand and an exponent, every operation computes the exact  *)
(* result and rounds it to nearest, ties to even.  Significands are wider  *)
(* than the integers of the model checker, so they are held as sequences   *)
(* of 13-bit limbs, least significant first.  The exponent range is not    *)
(* bounded: no input of the model comes near overflow or underflow.        *)
(***************************************************************************)
EXTENDS Integers, Sequences, FiniteSets, TLC

\* ------------------------------------------------------------------------
\* Natural numbers of any size: sequences of limbs, least significant first,
\* without leading zero limbs (zero is the empty sequence).
\* ------------------------------------------------------------------------

LimbBits == 13

Base == 2^LimbBits

Limb(a, i) == IF i >= 1 /\ i <= Len(a) THEN a[i] ELSE 0

MaxOf(S) == CHOOSE x \in S : \A y \in S : y <= x

\* a function on 1..n as a sequence
AsSeq(f) == f \o <<>>

NNorm(a) ==
  IF a = <<>> \/ a[Len(a)] # 0 THEN a
  ELSE LET nz == {i \in 1..Len(a) : a[i] # 0}
       IN  IF nz = {} THEN <<>> ELSE SubSeq(a, 1, MaxOf(nz))

\* the natural number n < 2^31
NFromInt(n) == NNorm(<<n % Base, (n \div Base) % Base, n \div (Base * Base)>>)

\* the value of a natural number below 2^31
NToInt(a) == Limb(a, 1) + Base * (Limb(a, 2) + Base * Limb(a, 3))

\* v holds digits in 0 .. 2 * Base - 2: the carry into place i
CarryInto(v, i) ==
  \E j \in 1..(i - 1) : v[j] >= Base /\ \A k \in (j + 1)..(i - 1) : v[k] = Base - 1

\* the limbs of a sequence of digits in 0 .. 2 * Base - 2 whose top digit is
\* below Base - 1
Resolve(v) ==
  NNorm(AsSeq([i \in 1..Len(v) |->
                 (v[i] + (IF CarryInto(v, i) THEN 1 ELSE 0)) % Base]))

NAdd(a, b) ==
  IF a = <<>> THEN b
  ELSE IF b = <<>> THEN a
  ELSE LET n == IF Len(a) >= Len(b) THEN Len(a) + 1 ELSE Len(b) + 1
       IN  Resolve(AsSeq([i \in 1..n |-> Limb(a, i) + Limb(b, i)]))

\* d holds digit differences: the borrow from place i
BorrowFrom(d, i) ==
  \E j \in 1..(i - 1) : d[j] < 0 /\ \A k \in (j + 1)..(i - 1) : d[k] = 0

\* a - b for a >= b
NSub(a, b) ==
  IF a = <<>> \/ b = <<>> THEN a
  ELSE LET d == AsSeq([i \in 1..Len(a) |-> a[i] - Limb(b, i)])
       IN  NNorm(AsSeq([i \in 1..Len(a) |->
                          (d[i] - (IF BorrowFrom(d, i) THEN 1 ELSE 0) + Base) % Base]))

\* -1, 0, 1 as a < b, a = b, a > b
NCmp(a, b) ==
  IF Len(a) < Len(b) THEN -1
  ELSE IF Len(a) > Len(b) THEN 1
  ELSE LET diff == {i \in 1..Len(a) : a[i] # b[i]}
       IN  IF diff = {} THEN 0
           ELSE IF a[MaxOf(diff)] < b[MaxOf(diff)] THEN -1 ELSE 1

\* the product of limb i of a and the limb of b that meets it in column k
NTerm(a, b, k, i) == Limb(a, i) * Limb(b, k + 1 - i)

\* the sum of column k of the product of a and b, a of at most 9 limbs
NColSum(a, b, k) ==
  ((NTerm(a, b, k, 1) + NTerm(a, b, k, 2)) + (NTerm(a, b, k, 3) + NTerm(a, b, k, 4)))
  + ((NTerm(a, b, k, 5) + NTerm(a, b, k, 6)) + (NTerm(a, b, k, 7) + NTerm(a, b, k, 8)))
  + NTerm(a, b, k, 9)

\* each digit keeps its low limb and takes the carry of the digit below
NCarryPass(v) ==
  AsSeq([i \in 1..Len(v) |-> (v[i] % Base) + (IF i = 1 THEN 0 ELSE v[i - 1] \div Base)])

\* a * b, for a of at most 9 limbs
NMul(a, b) ==
  IF a = <<>> \/ b = <<>> THEN <<>>
  ELSE Resolve(NCarryPass(NCarryPass(NCarryPass(
         AsSeq([k \in 1..(Len(a) + Len(b)) |-> NColSum(a, b, k)])))))

\* quotient and remainder of a by a small k (0 < k < 2^17): limb i of a joins
\* the remainder r of the limbs above it, q holds the digits found so far
RECURSIVE NDivSmallFrom(_, _, _, _, _)
NDivSmallFrom(a, k, i, q, r) ==
  IF i = 0 \/ r >= k \/ Len(q) > Len(a) THEN [q |-> NNorm(q), r |-> r]
  ELSE NDivSmallFrom(a, k, i - 1, <<(r * Base + a[i]) \div k>> \o q,
                     (r * Base + a[i]) % k)

NDivSmall(a, k) == NDivSmallFrom(a, k, Len(a), <<>>, 0)

NZeros(n) == [i \in 1..n |-> 0]

\* a * 2^n
NShl(a, n) ==
  LET r  == n % LimbBits
      lo == 2^(LimbBits - r)
  IN  IF a = <<>> THEN <<>>
      ELSE NZeros(n \div LimbBits)
           \o NNorm(AsSeq([i \in 1..(Len(a) + 1) |->
                             ((Limb(a, i) % lo) * 2^r) + (Limb(a, i - 1) \div lo)]))

\* floor(a / 2^n)
NShr(a, n) ==
  LET q == n \div LimbBits
      r == n % LimbBits
  IN  IF a = <<>> \/ q >= Len(a) THEN <<>>
      ELSE NNorm(AsSeq([i \in 1..(Len(a) - q) |->
                          (a[i + q] \div 2^r)
                          + ((Limb(a, i + q + 1) % 2^r) * 2^(LimbBits - r))]))

\* whether a is a multiple of 2^n
NLowZero(a, n) ==
  /\ \A i \in 1..(n \div LimbBits) : Limb(a, i) = 0
  /\ Limb(a, n \div LimbBits + 1) % 2^(n % LimbBits) = 0

\* the number of bits of 0 <= n < 2^30
IntBitLen(n) == IF n = 0 THEN 0 ELSE CHOOSE k \in 1..30 : 2^(k - 1) <= n /\ n < 2^k

NBitLen(a) ==
  IF a = <<>> THEN 0 ELSE LimbBits * (Len(a) - 1) + IntBitLen(a[Len(a)])

\* bit i of a, bit 1 the least significant
NBit(a, i) ==
  (Limb(a, (i - 1) \div LimbBits + 1) \div 2^((i - 1) % LimbBits)) % 2

NIsOdd(a) == a # <<>> /\ a[1] % 2 = 1

\* the leading bits long division estimates a quotient digit from
EstBits == 17

\* the digit d with d * b <= cur < (d + 1) * b, for cur < Base * b: within one
\* of the quotient of the leading bits of cur and b
NDigit(cur, b) ==
  IF cur = <<>> \/ NCmp(cur, b) < 0 THEN 0
  ELSE LET s   == IF NBitLen(b) > EstBits THEN NBitLen(b) - EstBits ELSE 0
           est == NToInt(NShr(cur, s)) \div NToInt(NShr(b, s))
       IN  CHOOSE d \in {est - 1, est, est + 1} :
             /\ d >= 0
             /\ NCmp(NMul(b, NFromInt(d)), cur) <= 0
             /\ NCmp(cur, NMul(b, NFromInt(d + 1))) < 0

\* quotient and remainder of a by b # 0, by long division: limb i of a joins
\* the remainder r < b of the limbs above it, q holds the digits found so far
RECURSIVE NDivModFrom(_, _, _, _, _)
NDivModNext(a, b, i, q, cur, d) ==
  IF d = 0 THEN NDivModFrom(a, b, i - 1, <<0>> \o q, cur)
  ELSE NDivModFrom(a, b, i - 1, <<d>> \o q, NSub(cur, NMul(b, NFromInt(d))))

NDivModFrom(a, b, i, q, r) ==
  IF i = 0 \/ NCmp(r, b) >= 0 \/ Len(q) > Len(a) THEN [q |-> NNorm(q), r |-> r]
  ELSE NDivModNext(a, b, i, q, NNorm(<<a[i]>> \o r), NDigit(NNorm(<<a[i]>> \o r), b))

NDivMod(a, b) == NDivModFrom(a, b, Len(a), <<>>, <<>>)

\* ------------------------------------------------------------------------
\* Floats: [neg, man, exp] is (-1)^neg * man * 2^exp with man of exactly Prec
\* bits, or man = <<>> for zero (exp = 0, neg = FALSE).
\* ------------------------------------------------------------------------

Prec == 53

FZero == [neg |-> FALSE, man |-> <<>>, exp |-> 0]

\* n * 2^e (sticky: a nonzero part below it was dropped) rounded to nearest,
\* ties to even
FRound(neg, n, e, sticky) ==
  LET len == NBitLen(n)
  IN  IF n = <<>> THEN FZero
      ELSE IF len <= Prec
      THEN [neg |-> neg, man |-> NShl(n, Prec - len), exp |-> e - (Prec - len)]
      ELSE LET k    == len - Prec
               q    == NShr(n, k)
               half == NBit(n, k) = 1
               rest == sticky \/ ~NLowZero(n, k - 1)
               up   == half /\ (rest \/ NIsOdd(q))
               q2   == IF up THEN NAdd(q, <<1>>) ELSE q
           IN  IF NBitLen(q2) > Prec
               THEN [neg |-> neg, man |-> NShr(q2, 1), exp |-> e + k + 1]
               ELSE [neg |-> neg, man |-> q2, exp |-> e + k]

FNeg(a) == IF a.man = <<>> THEN a ELSE [a EXCEPT !.neg = ~a.neg]

FAbs(a) == [a EXCEPT !.neg = FALSE]

\* -1, 0, 1 as |a| < |b|, |a| = |b|, |a| > |b|
FCmpAbs(a, b) ==
  IF a.man = <<>> THEN (IF b.man = <<>> THEN 0 ELSE -1)
  ELSE IF b.man = <<>> THEN 1
  ELSE IF a.exp < b.exp THEN -1
  ELSE IF a.exp > b.exp THEN 1
  ELSE NCmp(a.man, b.man)

\* -1, 0, 1 as a < b, a = b, a > b
FCmp(a, b) ==
  IF a.neg # b.neg THEN (IF a.neg THEN -1 ELSE 1)
  ELSE IF a.neg THEN FCmpAbs(b, a)
  ELSE FCmpAbs(a, b)

FLt(a, b) == FCmp(a, b) < 0

FLe(a, b) == FCmp(a, b) <= 0

\* how far apart two exponents may be before the smaller operand of a sum
\* lies below a quarter of the last place of the larger one
AlignMax == 64

\* the sum of two floats with exp of a >= exp of b
FAddOrdered(a, b) ==
  IF a.exp - b.exp > AlignMax THEN a
  ELSE LET x == NShl(a.man, a.exp - b.exp)
       IN  IF a.neg = b.neg THEN FRound(a.neg, NAdd(x, b.man), b.exp, FALSE)
           ELSE IF NCmp(x, b.man) >= 0
           THEN FRound(a.neg, NSub(x, b.man), b.exp, FALSE)
           ELSE FRound(b.neg, NSub(b.man, x), b.exp, FALSE)

\* a + b
FAdd(a, b) ==
  IF a.man = <<>> THEN b
  ELSE IF b.man = <<>> THEN a
  ELSE IF a.exp >= b.exp THEN FAddOrdered(a, b)
  ELSE FAddOrdered(b, a)

\* a - b
FSub(a, b) == FAdd(a, FNeg(b))

\* a * b
FMul(a, b) ==
  IF a.man = <<>> \/ b.man = <<>> THEN FZero
  ELSE FRound(a.neg # b.neg, NMul(a.man, b.man), a.exp + b.exp, FALSE)

\* extra quotient bits a division computes before it rounds
DivBits == 60

\* a / b for b # 0
FDiv(a, b) ==
  IF a.man = <<>> THEN FZero
  ELSE LET d == NDivMod(NShl(a.man, DivBits), b.man)
       IN  FRound(a.neg # b.neg, d.q, a.exp - b.exp - DivBits, d.r # <<>>)

\* float(n) of a Python int n
FromInt(n) ==
  IF n >= 0 THEN FRound(FALSE, NFromInt(n), 0, FALSE)
  ELSE FRound(TRUE, NFromInt(-n), 0, FALSE)

RECURSIVE NDivPow10(_, _, _)
NDivPow10(a, k, sticky) ==
  IF k = 0 THEN [q |-> a, sticky |-> sticky]
  ELSE LET d == NDivSmall(a, 10)
       IN  NDivPow10(d.q, k - 1, sticky \/ d.r # 0)

\* the float nearest to the decimal n / 10^k, n an integer: what float("...")
\* and a float literal give
Dec(n, k) ==
  LET a == IF n < 0 THEN -n ELSE n
      s == 64 + 4 * k
      d == NDivPow10(NShl(NFromInt(a), s), k, FALSE)
  IN  FRound(n < 0, d.q, -s, d.sticky)

\* int(x): x truncated toward zero, for |x| < 2^30
FTrunc(x) ==
  IF x.man = <<>> \/ x.exp <= -Prec THEN 0
  ELSE LET n == IF x.exp >= 0 THEN NShl(x.man, x.exp) ELSE NShr(x.man, -x.exp)
           v == Limb(n, 1) + Base * Limb(n, 2) + Base * Base * Limb(n, 3)
       IN  IF x.neg THEN -v ELSE v

\* ------------------------------------------------------------------------
\* math.exp: the exponential, computed in fixed point with ExpFrac fraction
\* bits and rounded once to a float.  exp(x) = 2^k * exp(r) with
\* r = x - k * ln 2 in [0, ln 2), exp(r) summed from its power series.
\* ------------------------------------------------------------------------

ExpFrac == 104

\* floor(ln 2 * 2^ExpFrac)
Ln2Fixed == <<6147, 7580, 4728, 4951, 7415, 7144, 2143, 5678>>

\* floor(x * 2^ExpFrac) for a float x >= 0
ToFixed(x) ==
  IF x.man = <<>> THEN <<>>
  ELSE IF x.exp + ExpFrac >= 0 THEN NShl(x.man, x.exp + ExpFrac)
  ELSE NShr(x.man, -(x.exp + ExpFrac))

\* sum plus the terms r^n / n! of the series from term n on, until they
\* vanish (the sum is at least 1, so its test only has it evaluated here)
RECURSIVE ExpSeries(_, _, _, _)
ExpSeries(r, term, n, sum) ==
  IF term = <<>> \/ sum = <<>> THEN sum
  ELSE ExpSeries(r, NDivSmall(NShr(NMul(term, r), ExpFrac), n).q, n + 1,
                 NAdd(sum, term))

\* exp(x) for a float x >= 0
FExp(x) ==
  IF x.man = <<>> THEN FromInt(1)
  ELSE LET d == NDivMod(ToFixed(x), Ln2Fixed)
           one == NShl(<<1>>, ExpFrac)
       IN  FRound(FALSE, ExpSeries(d.r, NDivSmall(NShr(NMul(one, d.r), ExpFrac), 1).q, 2, one),
                  NToInt(d.q) - ExpFrac, TRUE)

\* a slip: the clamp left out, the first argument returned as it is
FMaxUnclamped(a, b) == a

\* max(a, b) of Python: the first of the largest
FMax(a, b) == IF FLt(a, b) THEN b ELSE a

\* float(text) of a CSV cell holding the decimal text of n / 10^k
ParseFloat(cell) == Dec(cell[1], cell[2])

\* f"{x:.<digits>f}": the decimal text n / 10^digits nearest to x, ties to
\* even, as its sign and the natural number n
FormatFixed(x, digits) ==
  IF x.man = <<>> THEN [neg |-> FALSE, n |-> <<>>]
  ELSE LET scaled == NMul(x.man, NFromInt(10^digits))
       IN  IF x.exp >= 0 THEN [neg |-> x.neg, n |-> NShl(scaled, x.exp)]
           ELSE LET k    == -x.exp
                    q    == NShr(scaled, k)
                    half == NBit(scaled, k) = 1
                    rest == ~NLowZero(scaled, k - 1)
                    up   == half /\ (rest \/ NIsOdd(q))
                IN  [neg |-> x.neg, n |-> IF up THEN NAdd(q, <<1>>) ELSE q]

\* ------------------------------------------------------------------------
\* Text: a str is the sequence of its characters
\* ------------------------------------------------------------------------

UpperCase ==
  <<"A", "B", "C", "D", "E", "F", "G", "H", "I", "J", "K", "L", "M",
    "N", "O", "P", "Q", "R", "S", "T", "U", "V", "W", "X", "Y", "Z">>

LowerCase ==
  <<"a", "b", "c", "d", "e", "f", "g", "h", "i", "j", "k", "l", "m",
    "n", "o", "p", "q", "r", "s", "t", "u", "v", "w", "x", "y", "z">>

DigitChars == {"0", "1", "2", "3", "4", "5", "6", "7", "8", "9"}

Whitespace == {" ", "\t"}

LowerChar(ch) ==
  IF \E i \in 1..Len(UpperCase) : UpperCase[i] = ch
  THEN LowerCase[CHOOSE i \in 1..Len(UpperCase) : UpperCase[i] = ch]
  ELSE ch

\* str.lower
lower(s) == AsSeq([i \in 1..Len(s) |-> LowerChar(s[i])])

\* str.startswith
startswith(s, prefix) ==
  Len(s) >= Len(prefix) /\ SubSeq(s, 1, Len(prefix)) = prefix

\* str.endswith
endswith(s, suffix) ==
  Len(s) >= Len(suffix) /\ SubSeq(s, Len(s) - Len(suffix) + 1, Len(s)) = suffix

\* str.isalnum of one character
isalnum(ch) ==
  \/ ch \in DigitChars
  \/ \E i \in 1..Len(UpperCase) : ch = UpperCase[i] \/ ch = LowerCase[i]

MinOf(S) == CHOOSE x \in S : \A y \in S : x <= y

\* str.strip(chars): s without its leading and trailing characters of chars
strip(s, chars) ==
  LET keep == {i \in 1..Len(s) : s[i] \notin chars}
  IN  IF keep = {} THEN <<>> ELSE SubSeq(s, MinOf(keep), MaxOf(keep))

\* ------------------------------------------------------------------------
\* The state of the scripts.  Each script is a process of its own: a
\* specification runs one of them and leaves the others idle.
\* ------------------------------------------------------------------------

VARIABLES
  \* water_schedule_cost.py
  w_pc,                 \* "start", "loaded", "done"
  w_csv,                \* the data row of water_cost.csv
  w_cost_per_ton,
  w_capacity_per_year,
  w_out,                \* the quantities main computes
  w_written,            \* the data row of water_schedule_cost.csv
  \* plot_water_cost.py
  p_pc,                 \* "start", "loop", "returned"
  p_csv,                \* capacity of water_cost.csv, the two costs of
                        \* elevator_ground_cost.csv
  p_capacity_per_year,
  p_cost_elev,
  p_cost_ground,
  p_capacity_per_day,
  p_deficit_per_day,
  p_d,                  \* the loop variable d
  p_days,
  p_elevator_recovery,
  p_ground_recovery,
  \* elevator_ground_cost.py
  c_pc,                 \* "start", "loop", "done"
  c_csv,                \* the data rows of dv_f.csv
  c_rows,
  c_i,                  \* the place of the loop in rows
  c_cost_launch,
  c_cost_per_ton,
  c_elevator_costs,
  c_ground_costs,
  c_elevator_avg,
  c_ground_avg,
  c_written,            \* the data rows of elevator_ground_cost.csv
  \* fuel_calc.py
  f_pc,                 \* "start", "fuel", "site", "done"
  f_dv_csv,             \* the data rows of dv_f.csv
  f_ws_csv,             \* the header and the first data row of 最优.csv
  f_dv_map,
  f_ws_map,
  f_fuel,               \* the place of the outer loop in ENGINE_TYPES
  f_site,               \* the place of the inner loop in ws_map
  f_total_atm,
  f_total_vac,
  f_totals,
  f_written,            \* the data rows of fuel_totals.csv
  \* calls of propellant_per_launch
  q_calls,              \* the arguments of two calls
  q_results             \* what the calls made so far returned

w_vars == <<w_pc, w_csv, w_cost_per_ton, w_capacity_per_year, w_out, w_written>>

p_vars == <<p_pc, p_csv, p_capacity_per_year, p_cost_elev, p_cost_ground,
            p_capacity_per_day, p_deficit_per_day, p_d, p_days,
            p_elevator_recovery, p_ground_recovery>>

c_vars == <<c_pc, c_csv, c_rows, c_i, c_cost_launch, c_cost_per_ton,
            c_elevator_costs, c_ground_costs, c_elevator_avg, c_ground_avg,
            c_written>>

f_vars == <<f_pc, f_dv_csv, f_ws_csv, f_dv_map, f_ws_map, f_fuel, f_site,
            f_total_atm, f_total_vac, f_totals, f_written>>

q_vars == <<q_calls, q_results>>

vars == <<w_vars, p_vars, c_vars, f_vars, q_vars>>

\* what a step of one script leaves alone
not_w_vars == <<p_vars, c_vars, f_vars, q_vars>>

not_p_vars == <<w_vars, c_vars, f_vars, q_vars>>

not_c_vars == <<w_vars, p_vars, f_vars, q_vars>>

not_f_vars == <<w_vars, p_vars, c_vars, q_vars>>

not_q_vars == <<w_vars, p_vars, c_vars, f_vars>>

\* ------------------------------------------------------------------------
\* water_schedule_cost.py
\* ------------------------------------------------------------------------

ANNUAL_USE_TONS == Dec(1387000, 0)

RECOVERY_RATE == Dec(90, 2)

DEFICIT_RATE == FSub(Dec(10, 1), RECOVERY_RATE)

RESERVE_FRACTION == Dec(50, 2)

DAYS_FULL == 102

DAYS_DEFICIT == 263

DAYS_PER_YEAR == 365

\* the cells of water_cost.csv the model draws from: decimal texts n / 10^k
CapacityCells ==
  {<<0, 0>>, <<1000, 0>>, <<138700, 0>>, <<2700000, 0>>, <<5000000, 0>>,
   <<123456789, 2>>, <<100000000, 0>>, <<-5000, 0>>}

CostCells == {<<0, 0>>, <<8913, 6>>, <<1, 1>>, <<1, 0>>, <<25, 1>>}

WaterCsvs == [cost : CostCells, capacity : CapacityCells]

\* lines 43-54 of main: what is delivered and what the reserve holds
water_delivery(capacity_per_year) ==
  LET capacity_per_day  == FDiv(capacity_per_year, FromInt(DAYS_PER_YEAR))
      deficit_per_year  == FMul(ANNUAL_USE_TONS, DEFICIT_RATE)
      deficit_per_day   == FDiv(deficit_per_year, FromInt(DAYS_PER_YEAR))
      delivered_full    == FMul(capacity_per_day, FromInt(DAYS_FULL))
      deficit_full      == FMul(deficit_per_day, FromInt(DAYS_FULL))
      reserve_target    == FMul(ANNUAL_USE_TONS, RESERVE_FRACTION)
      reserve_filled    == FMax(FSub(delivered_full, deficit_full), FZero)
      remaining_reserve == FMax(FSub(reserve_target, reserve_filled), FZero)
      delivered_deficit == FMul(deficit_per_day, FromInt(DAYS_DEFICIT))
      total_delivered   == FAdd(delivered_full, delivered_deficit)
  IN  [capacity_per_day  |-> capacity_per_day,
       deficit_per_year  |-> deficit_per_year,
       deficit_per_day   |-> deficit_per_day,
       delivered_full    |-> delivered_full,
       deficit_full      |-> deficit_full,
       reserve_target    |-> reserve_target,
       reserve_filled    |-> reserve_filled,
       remaining_reserve |-> remaining_reserve,
       delivered_deficit |-> delivered_deficit,
       total_delivered   |-> total_delivered]

\* a slip in line 56: the cost of the full-capacity phase alone
water_main_full_phase_only(cost_per_ton, capacity_per_year) ==
  water_delivery(capacity_per_year)
  @@ [cost_per_ton |-> cost_per_ton,
      total_cost   |-> FMul(water_delivery(capacity_per_year).delivered_full, cost_per_ton)]

\* lines 43-56 of main: the quantities it computes
water_main(cost_per_ton, capacity_per_year) ==
  water_delivery(capacity_per_year)
  @@ [cost_per_ton |-> cost_per_ton,
      total_cost   |-> FMul(water_delivery(capacity_per_year).total_delivered, cost_per_ton)]

NoOut == [none |-> TRUE]

\* the script before it runs, on one of the inputs csvs
WaterStart(pc, csvs) ==
  /\ w_pc = pc
  /\ w_csv \in csvs
  /\ w_cost_per_ton = FZero
  /\ w_capacity_per_year = FZero
  /\ w_out = NoOut
  /\ w_written = <<>>

load_cost_and_capacity ==
  /\ w_pc = "start"
  /\ w_cost_per_ton' = ParseFloat(w_csv.cost)
  /\ w_capacity_per_year' = ParseFloat(w_csv.capacity)
  /\ w_pc' = "loaded"
  /\ UNCHANGED <<w_csv, w_out, w_written>>
  /\ UNCHANGED not_w_vars

\* lines 61-88: the data row, tons with three decimals, costs with six
water_row(out) ==
  <<FormatFixed(ANNUAL_USE_TONS, 3), FormatFixed(out.deficit_per_year, 3),
    FormatFixed(out.reserve_target, 3), FormatFixed(out.delivered_full, 3),
    FormatFixed(out.delivered_deficit, 3), FormatFixed(out.total_delivered, 3),
    FormatFixed(out.reserve_filled, 3), FormatFixed(out.remaining_reserve, 3),
    FormatFixed(out.cost_per_ton, 6), FormatFixed(out.total_cost, 6)>>

water_compute ==
  /\ w_pc = "loaded"
  /\ w_out' = water_main(w_cost_per_ton, w_capacity_per_year)
  /\ w_written' = water_row(w_out')
  /\ w_pc' = "done"
  /\ UNCHANGED <<w_csv, w_cost_per_ton, w_capacity_per_year>>
  /\ UNCHANGED not_w_vars

\* ------------------------------------------------------------------------
\* plot_water_cost.py: cumulative_costs
\* ------------------------------------------------------------------------

plot_ANNUAL_USE_TONS == Dec(1387000, 0)

plot_RECOVERY_RATE == Dec(90, 2)

plot_DEFICIT_RATE == FSub(Dec(10, 1), plot_RECOVERY_RATE)

\* a slip: the full-capacity phase a day too long
plot_DAYS_FULL_late == 102 + 1

plot_DAYS_FULL == 102

\* a slip: the year a day too short
plot_DAYS_PER_YEAR_short == 365 - 1

plot_DAYS_PER_YEAR == 365

\* what the plot script reads: the capacity, the elevator and the ground cost
\* per ton (elevator_ground_cost.csv holds them with six decimals)
PlotCells ==
  {[capacity |-> c, elev |-> e[1], ground |-> e[2]] :
     c \in {<<5000000, 0>>, <<1000, 0>>, <<123456789, 2>>},
     e \in {<<<<8913, 6>>, <<65211, 6>>>>, <<<<0, 6>>, <<1000000, 6>>>>}}
  \cup {[capacity |-> <<-5000, 0>>, elev |-> <<8913, 6>>, ground |-> <<65211, 6>>],
        [capacity |-> <<0, 0>>, elev |-> <<8913, 6>>, ground |-> <<65211, 6>>]}

\* the script before it runs, on one of the inputs csvs
PlotStart(pc, csvs) ==
  /\ p_pc = pc
  /\ p_csv \in csvs
  /\ p_capacity_per_year = FZero
  /\ p_cost_elev = FZero
  /\ p_cost_ground = FZero
  /\ p_capacity_per_day = FZero
  /\ p_deficit_per_day = FZero
  /\ p_d = 0
  /\ p_days = <<>>
  /\ p_elevator_recovery = <<>>
  /\ p_ground_recovery = <<>>

\* lines 48-57: the reads, the two rates, the three lists; d is the first
\* value of range(1, DAYS_PER_YEAR + 1)
cumulative_costs_setup ==
  /\ p_pc = "start"
  /\ p_capacity_per_year' = ParseFloat(p_csv.capacity)
  /\ p_cost_elev' = ParseFloat(p_csv.elev)
  /\ p_cost_ground' = ParseFloat(p_csv.ground)
  /\ p_capacity_per_day' =
       FDiv(ParseFloat(p_csv.capacity), FromInt(plot_DAYS_PER_YEAR))
  /\ p_deficit_per_day' =
       FDiv(FMul(plot_ANNUAL_USE_TONS, plot_DEFICIT_RATE), FromInt(plot_DAYS_PER_YEAR))
  /\ p_days' = [i \in 1..(plot_DAYS_PER_YEAR + 1) |-> i - 1]
  /\ p_elevator_recovery' = <<FZero>>
  /\ p_ground_recovery' = <<FZero>>
  /\ p_d' = 1
  /\ p_pc' = "loop"
  /\ UNCHANGED p_csv
  /\ UNCHANGED not_p_vars

\* a slip: list[0] for list[-1]
First(list) == list[1]

\* list[-1]
Last(list) == list[Len(list)]

\* one pass of the loop body with d <= DAYS_FULL
cumulative_costs_full ==
  /\ p_pc = "loop"
  /\ p_d <= plot_DAYS_PER_YEAR
  /\ p_d <= plot_DAYS_FULL
  /\ p_elevator_recovery' =
       Append(p_elevator_recovery,
              FAdd(Last(p_elevator_recovery), FMul(p_capacity_per_day, p_cost_elev)))
  /\ p_ground_recovery' =
       Append(p_ground_recovery,
              FAdd(Last(p_ground_recovery), FMul(p_capacity_per_day, p_cost_ground)))
  /\ p_d' = p_d + 1
  /\ UNCHANGED <<p_pc, p_csv, p_capacity_per_year, p_cost_elev, p_cost_ground,
                 p_capacity_per_day, p_deficit_per_day, p_days>>
  /\ UNCHANGED not_p_vars

\* one pass of the loop body with d > DAYS_FULL
cumulative_costs_deficit ==
  /\ p_pc = "loop"
  /\ p_d <= plot_DAYS_PER_YEAR
  /\ ~(p_d <= plot_DAYS_FULL)
  /\ p_elevator_recovery' =
       Append(p_elevator_recovery,
              FAdd(Last(p_elevator_recovery), FMul(p_deficit_per_day, p_cost_elev)))
  /\ p_ground_recovery' =
       Append(p_ground_recovery,
              FAdd(Last(p_ground_recovery), FMul(p_deficit_per_day, p_cost_ground)))
  /\ p_d' = p_d + 1
  /\ UNCHANGED <<p_pc, p_csv, p_capacity_per_year, p_cost_elev, p_cost_ground,
                 p_capacity_per_day, p_deficit_per_day, p_days>>
  /\ UNCHANGED not_p_vars

\* the loop is over: return days, elevator_recovery, ground_recovery
cumulative_costs_return ==
  /\ p_pc = "loop"
  /\ p_d > plot_DAYS_PER_YEAR
  /\ p_pc' = "returned"
  /\ UNCHANGED <<p_csv, p_capacity_per_year, p_cost_elev, p_cost_ground,
                 p_capacity_per_day, p_deficit_per_day, p_d, p_days,
                 p_elevator_recovery, p_ground_recovery>>
  /\ UNCHANGED not_p_vars

\* ------------------------------------------------------------------------
\* elevator_ground_cost.py
\* ------------------------------------------------------------------------

C == Dec(713, 5)

M == Dec(1250, 1)

PAYLOAD_TONS == Dec(1250, 1)

\* rows of dv_f.csv the model draws from: the name and the decimal text of
\* the column 总f
MaxRows == 2

SpaceElevator ==
  <<"s", "p", "a", "c", "e", " ", "e", "l", "e", "v", "a", "t", "o", "r">>

CostRowCells ==
  {[name |-> SpaceElevator, f |-> <<7, 0>>],
   [name |-> <<"S", "p", "a", "c", "e", " ", "E", "l", "e", "v", "a", "t", "o", "r", " ", "A">>,
    f |-> <<25, 1>>],
   [name |-> <<" ", "S", "P", "A", "C", "E", " ", "E", "L", "E", "V", "A", "T", "O", "R">>,
    f |-> <<0, 0>>],
   [name |-> <<"K", "o", "u", "r", "o", "u">>, f |-> <<11, 0>>],
   [name |-> <<"s", "p", "a", "c", "e", " ", "e", "l", "e", "v", "a", "t", "o">>,
    f |-> <<914, 2>>],
   [name |-> <<"a", " ", "s", "p", "a", "c", "e", " ", "e", "l", "e", "v", "a", "t", "o", "r">>,
    f |-> <<1, 0>>]}

CostCsvs == UNION {[1..n -> CostRowCells] : n \in 0..MaxRows}

load_rows(csv) ==
  AsSeq([i \in 1..Len(csv) |->
           [name |-> strip(csv[i].name, Whitespace), f_total |-> ParseFloat(csv[i].f)]])

\* a slip: the name compared as it is written
is_elevator_case_sensitive(name) == startswith(name, SpaceElevator)

is_elevator(name) == startswith(lower(name), SpaceElevator)

\* sum(list) of floats: the int 0, then each element added in turn
RECURSIVE SumFrom(_, _, _)
SumFrom(list, i, acc) ==
  IF i > Len(list) THEN acc ELSE SumFrom(list, i + 1, FAdd(acc, list[i]))

sum(list) == SumFrom(list, 1, FZero)

\* sum(costs) / len(costs) if costs else 0.0
average(costs) ==
  IF costs # <<>> THEN FDiv(sum(costs), FromInt(Len(costs))) ELSE FZero

\* the script before it runs, on one of the inputs csvs
CostStart(pc, csvs) ==
  /\ c_pc = pc
  /\ c_csv \in csvs
  /\ c_rows = <<>>
  /\ c_i = 0
  /\ c_cost_launch = FZero
  /\ c_cost_per_ton = FZero
  /\ c_elevator_costs = <<>>
  /\ c_ground_costs = <<>>
  /\ c_elevator_avg = FZero
  /\ c_ground_avg = FZero
  /\ c_written = <<>>

\* lines 40-43: the rows, the two empty lists
cost_main_load ==
  /\ c_pc = "start"
  /\ c_rows' = load_rows(c_csv)
  /\ c_elevator_costs' = <<>>
  /\ c_ground_costs' = <<>>
  /\ c_i' = 1
  /\ c_pc' = "loop"
  /\ UNCHANGED <<c_csv, c_cost_launch, c_cost_per_ton, c_elevator_avg,
                 c_ground_avg, c_written>>
  /\ UNCHANGED not_c_vars

\* lines 46-47
cost_launch_of(f_total) == FMul(FMul(C, M), f_total)

cost_per_ton_of(f_total) == FDiv(cost_launch_of(f_total), PAYLOAD_TONS)

\* one pass of the loop body, the row an elevator
cost_main_elevator ==
  /\ c_pc = "loop"
  /\ c_i <= Len(c_rows)
  /\ is_elevator(c_rows[c_i].name)
  /\ c_cost_launch' = cost_launch_of(c_rows[c_i].f_total)
  /\ c_cost_per_ton' = cost_per_ton_of(c_rows[c_i].f_total)
  /\ c_elevator_costs' = Append(c_elevator_costs, cost_per_ton_of(c_rows[c_i].f_total))
  /\ c_i' = c_i + 1
  /\ UNCHANGED <<c_pc, c_csv, c_rows, c_ground_costs, c_elevator_avg,
                 c_ground_avg, c_written>>
  /\ UNCHANGED not_c_vars

\* one pass of the loop body, the row a ground site
cost_main_ground ==
  /\ c_pc = "loop"
  /\ c_i <= Len(c_rows)
  /\ ~is_elevator(c_rows[c_i].name)
  /\ c_cost_launch' = cost_launch_of(c_rows[c_i].f_total)
  /\ c_cost_per_ton' = cost_per_ton_of(c_rows[c_i].f_total)
  /\ c_ground_costs' = Append(c_ground_costs, cost_per_ton_of(c_rows[c_i].f_total))
  /\ c_i' = c_i + 1
  /\ UNCHANGED <<c_pc, c_csv, c_rows, c_elevator_costs, c_elevator_avg,
                 c_ground_avg, c_written>>
  /\ UNCHANGED not_c_vars

\* lines 53-61: the two averages and the rows written
cost_main_write ==
  /\ c_pc = "loop"
  /\ c_i > Len(c_rows)
  /\ c_elevator_avg' = average(c_elevator_costs)
  /\ c_ground_avg' = average(c_ground_costs)
  /\ c_written' = <<FormatFixed(average(c_elevator_costs), 6),
                    FormatFixed(average(c_ground_costs), 6)>>
  /\ c_pc' = "done"
  /\ UNCHANGED <<c_csv, c_rows, c_i, c_cost_launch, c_cost_per_ton,
                 c_elevator_costs, c_ground_costs>>
  /\ UNCHANGED not_c_vars

\* ------------------------------------------------------------------------
\* fuel_calc.py
\* ------------------------------------------------------------------------

G0 == Dec(980665, 5)

fuel_PAYLOAD_TONS == Dec(1250, 1)

None == "None"

MASS_RATIO_CAP == None

LAUNCHES_PER_WORKSTATION_PER_YEAR == 134

YEARS == 65

\* the fuels in the order of the dict: 液氧煤油 (kerosene), 液氧液氢 (hydrogen),
\* 液氧甲烷 (methane)
ENGINE_TYPES ==
  <<[fuel |-> "kerosene", isp_sea |-> Dec(3100, 1), isp_vac |-> Dec(3680, 1)],
    [fuel |-> "hydrogen", isp_sea |-> Dec(3860, 1), isp_vac |-> Dec(4720, 1)],
    [fuel |-> "methane",  isp_sea |-> Dec(3700, 1), isp_vac |-> Dec(4000, 1)]>>

CO2_FACTORS ==
  [fuel \in {"kerosene", "methane", "hydrogen"} |->
     CASE fuel = "kerosene" -> FAdd(Dec(96, 2), Dec(51, 2))
       [] fuel = "methane"  -> FAdd(Dec(60, 2), Dec(48, 2))
       [] fuel = "hydrogen" -> FAdd(Dec(0, 2), Dec(166, 2))]

\* the k-th smallest element of a set of integers
Kth(S, k) == CHOOSE i \in S : Cardinality({j \in S : j <= i}) = k

\* the characters of s at the places of keep, in their order
Pick(s, keep) == AsSeq([k \in 1..Cardinality(keep) |-> s[Kth(keep, k)]])

Site == <<"s", "i", "t", "e">>

slugify(name) ==
  LET low      == lower(name)
      out      == AsSeq([i \in 1..Len(low) |-> IF isalnum(low[i]) THEN low[i] ELSE "_"])
      stripped == strip(out, {"_"})
      slug     == Pick(stripped, {i \in 1..Len(stripped) :
                                    ~(i > 1 /\ stripped[i] = "_" /\ stripped[i - 1] = "_")})
  IN  IF slug # <<>> THEN slug ELSE Site

\* the dict slug -> (dv_atm, dv_vac) in m/s: a later row replaces an earlier
\* one of the same slug
load_dv(csv) ==
  LET slug_of(i) == slugify(strip(csv[i].name, Whitespace))
      last(s)    == MaxOf({i \in 1..Len(csv) : slug_of(i) = s})
  IN  [s \in {slug_of(i) : i \in 1..Len(csv)} |->
         <<FMul(ParseFloat(csv[last(s)].dv_atm), Dec(10000, 1)),
           FMul(ParseFloat(csv[last(s)].dv_vac), Dec(10000, 1))>>]

WsSuffix ==
  <<"_", "w", "o", "r", "k", "s", "t", "a", "t", "i", "o", "n", "s",
    "_", "i", "n", "_", "u", "s", "e">>

\* the dict slug -> workstations as the sequence of its items: a key keeps
\* the place of its first column and takes the value of its last one.  A
\* cell is the decimal text <<n, k>> or, as <<>>, a text float() rejects.
load_workstations(csv) ==
  LET header     == csv.header
      cols       == {i \in 1..Len(header) : endswith(header[i], WsSuffix)}
      slug_of(i) == SubSeq(header[i], 1, Len(header[i]) - Len(WsSuffix))
      ws_of(i)   == IF csv.row[i] # <<>> THEN FTrunc(ParseFloat(csv.row[i])) ELSE 0
      firsts     == {i \in cols : \A j \in cols : slug_of(j) = slug_of(i) => j >= i}
      last(i)    == MaxOf({j \in cols : slug_of(j) = slug_of(i)})
  IN  AsSeq([k \in 1..Cardinality(firsts) |->
               [slug |-> slug_of(Kth(firsts, k)), ws |-> ws_of(last(Kth(firsts, k)))]])

\* a slip: the mass at lift-off for the propellant, the payload not taken off
propellant_per_launch_liftoff(dv, isp) ==
  FMul(fuel_PAYLOAD_TONS, FExp(FDiv(dv, FMul(isp, G0))))

\* dv >= 0 in m/s, isp in s
propellant_per_launch(dv, isp) ==
  LET ratio  == FExp(FDiv(dv, FMul(isp, G0)))
      capped == IF MASS_RATIO_CAP # None /\ FLt(MASS_RATIO_CAP, ratio)
                THEN MASS_RATIO_CAP ELSE ratio
  IN  FMul(fuel_PAYLOAD_TONS, FSub(capped, Dec(10, 1)))

\* a slip: the launches of one year
launches_of_one_year(ws) == ws * LAUNCHES_PER_WORKSTATION_PER_YEAR

\* line 117
launches_of(ws) == ws * LAUNCHES_PER_WORKSTATION_PER_YEAR * YEARS

\* the inputs the model draws from
Kourou == <<"K", "o", "u", "r", "o", "u">>

BocaChica == <<" ", "B", "o", "c", "a", " ", "-", " ", "C", "h", "i", "c", "a">>

Wenchang == <<"W", "e", "n", "c", "h", "a", "n", "g">>

DvCsvs ==
  {<<>>,
   <<[name |-> Kourou, dv_atm |-> <<15, 1>>, dv_vac |-> <<78, 1>>]>>,
   <<[name |-> Kourou, dv_atm |-> <<0, 0>>, dv_vac |-> <<12, 0>>],
     [name |-> BocaChica, dv_atm |-> <<1234, 3>>, dv_vac |-> <<94, 1>>],
     [name |-> Wenchang, dv_atm |-> <<2, 0>>, dv_vac |-> <<8, 0>>],
     [name |-> lower(Kourou), dv_atm |-> <<1500, 3>>, dv_vac |-> <<9, 0>>]>>}

WsHeader ==
  <<lower(Kourou) \o WsSuffix,
    <<"t", "o", "t", "a", "l", "_", "c", "o", "s", "t">>,
    <<"b", "o", "c", "a", "_", "c", "h", "i", "c", "a">> \o WsSuffix,
    <<"x", "i", "c", "h", "a", "n", "g">> \o WsSuffix>>

WsRows ==
  {<<<<2, 0>>, <<15, 1>>, <<1, 0>>, <<3, 0>>>>,
   <<<<0, 0>>, <<15, 1>>, <<2, 0>>, <<0, 0>>>>,
   <<<<-1, 0>>, <<>>, <<>>, <<1, 0>>>>,
   <<<<19, 1>>, <<15, 1>>, <<5, 1>>, <<>>>>,
   <<<<2, 0>>, <<>>, <<0, 0>>, <<1, 0>>>>,
   <<<<>>, <<>>, <<>>, <<>>>>}

WsCsvs == {[header |-> WsHeader, row |-> r] : r \in WsRows}

\* the script before it runs, on one of the inputs
FuelStart(pc, dv_csvs, ws_csvs) ==
  /\ f_pc = pc
  /\ f_dv_csv \in dv_csvs
  /\ f_ws_csv \in ws_csvs
  /\ f_dv_map = <<>>
  /\ f_ws_map = <<>>
  /\ f_fuel = 0
  /\ f_site = 0
  /\ f_total_atm = FZero
  /\ f_total_vac = FZero
  /\ f_totals = <<>>
  /\ f_written = <<>>

\* lines 103-106: the two maps, the empty totals, the first fuel
fuel_main_load ==
  /\ f_pc = "start"
  /\ f_dv_map' = load_dv(f_dv_csv)
  /\ f_ws_map' = load_workstations(f_ws_csv)
  /\ f_totals' = <<>>
  /\ f_fuel' = 1
  /\ f_pc' = "fuel"
  /\ UNCHANGED <<f_dv_csv, f_ws_csv, f_site, f_total_atm, f_total_vac, f_written>>
  /\ UNCHANGED not_f_vars

\* lines 108-111: the next fuel, its totals at 0.0, the first site
fuel_main_begin ==
  /\ f_pc = "fuel"
  /\ f_fuel <= Len(ENGINE_TYPES)
  /\ f_total_atm' = FZero
  /\ f_total_vac' = FZero
  /\ f_site' = 1
  /\ f_pc' = "site"
  /\ UNCHANGED <<f_dv_csv, f_ws_csv, f_dv_map, f_ws_map, f_fuel, f_totals, f_written>>
  /\ UNCHANGED not_f_vars

\* lines 112-113
fuel_main_skip_ws ==
  /\ f_pc = "site"
  /\ f_site <= Len(f_ws_map)
  /\ f_ws_map[f_site].ws <= 0
  /\ f_site' = f_site + 1
  /\ UNCHANGED <<f_pc, f_dv_csv, f_ws_csv, f_dv_map, f_ws_map, f_fuel,
                 f_total_atm, f_total_vac, f_totals, f_written>>
  /\ UNCHANGED not_f_vars

\* lines 114-115
fuel_main_skip_dv ==
  /\ f_pc = "site"
  /\ f_site <= Len(f_ws_map)
  /\ ~(f_ws_map[f_site].ws <= 0)
  /\ f_ws_map[f_site].slug \notin DOMAIN f_dv_map
  /\ f_site' = f_site + 1
  /\ UNCHANGED <<f_pc, f_dv_csv, f_ws_csv, f_dv_map, f_ws_map, f_fuel,
                 f_total_atm, f_total_vac, f_totals, f_written>>
  /\ UNCHANGED not_f_vars

\* lines 116-121
fuel_main_add ==
  /\ f_pc = "site"
  /\ f_site <= Len(f_ws_map)
  /\ ~(f_ws_map[f_site].ws <= 0)
  /\ ~(f_ws_map[f_site].slug \notin DOMAIN f_dv_map)
  /\ LET dv       == f_dv_map[f_ws_map[f_site].slug]
         isp      == ENGINE_TYPES[f_fuel]
         launches == launches_of(f_ws_map[f_site].ws)
         atm_per  == propellant_per_launch(dv[1], isp.isp_sea)
         vac_per  == propellant_per_launch(dv[2], isp.isp_vac)
     IN  /\ f_total_atm' = FAdd(f_total_atm, FMul(atm_per, FromInt(launches)))
         /\ f_total_vac' = FAdd(f_total_vac, FMul(vac_per, FromInt(launches)))
  /\ f_site' = f_site + 1
  /\ UNCHANGED <<f_pc, f_dv_csv, f_ws_csv, f_dv_map, f_ws_map, f_fuel,
                 f_totals, f_written>>
  /\ UNCHANGED not_f_vars

\* a slip: the CO2 of the atmospheric propellant alone
totals_row_atm_only(fuel, total_atm, total_vac) ==
  <<fuel, total_atm, total_vac, FMul(total_atm, CO2_FACTORS[fuel])>>

\* lines 122-124
totals_row(fuel, total_atm, total_vac) ==
  <<fuel, total_atm, total_vac, FMul(FAdd(total_atm, total_vac), CO2_FACTORS[fuel])>>

\* the sites are done: the row of the fuel, the next fuel
fuel_main_end ==
  /\ f_pc = "site"
  /\ f_site > Len(f_ws_map)
  /\ f_totals' = Append(f_totals, totals_row(ENGINE_TYPES[f_fuel].fuel, f_total_atm, f_total_vac))
  /\ f_fuel' = f_fuel + 1
  /\ f_pc' = "fuel"
  /\ UNCHANGED <<f_dv_csv, f_ws_csv, f_dv_map, f_ws_map, f_site,
                 f_total_atm, f_total_vac, f_written>>
  /\ UNCHANGED not_f_vars

\* lines 126-131: one row of fuel_totals.csv for each element of totals
fuel_main_write ==
  /\ f_pc = "fuel"
  /\ f_fuel > Len(ENGINE_TYPES)
  /\ f_written' = AsSeq([i \in 1..Len(f_totals) |->
                           <<f_totals[i][1], FormatFixed(f_totals[i][2], 3),
                             FormatFixed(f_totals[i][3], 3), FormatFixed(f_totals[i][4], 3)>>])
  /\ f_pc' = "done"
  /\ UNCHANGED <<f_dv_csv, f_ws_csv, f_dv_map, f_ws_map, f_fuel, f_site,
                 f_total_atm, f_total_vac, f_totals>>
  /\ UNCHANGED not_f_vars

\* ------------------------------------------------------------------------
\* propellant_per_launch on its own: two calls that share dv or isp
\* ------------------------------------------------------------------------

DvGrid ==
  {Dec(0, 0), Dec(1, 17), Dec(2, 17), Dec(1, 0), Dec(2, 0), Dec(1500, 0),
   Dec(7800, 0), Dec(9000, 0)}

IspGrid == {Dec(3100, 1), Dec(3680, 1), Dec(3860, 1), Dec(4720, 1)}

PplCalls ==
  {<<a, b>> \in ([dv : DvGrid, isp : IspGrid] \X [dv : DvGrid, isp : IspGrid]) :
     \/ a.isp = b.isp /\ FLe(a.dv, b.dv)
     \/ a.dv = b.dv /\ FLe(a.isp, b.isp)}

PplStart(calls) ==
  /\ q_calls \in calls
  /\ q_results = <<>>

\* the next of the calls
propellant_per_launch_call ==
  /\ Len(q_results) < Len(q_calls)
  /\ q_results' = Append(q_results,
                         propellant_per_launch(q_calls[Len(q_results) + 1].dv,
                                               q_calls[Len(q_results) + 1].isp))
  /\ UNCHANGED q_calls
  /\ UNCHANGED not_q_vars

\* ------------------------------------------------------------------------
\* The specifications: one script each
\* ------------------------------------------------------------------------

NoWaterCsv == [cost |-> <<0, 0>>, capacity |-> <<0, 0>>]

NoPlotCsv == [capacity |-> <<0, 0>>, elev |-> <<0, 0>>, ground |-> <<0, 0>>]

NoCalls == <<>>

WaterInit ==
  /\ WaterStart("start", WaterCsvs)
  /\ PlotStart("idle", {NoPlotCsv})
  /\ CostStart("idle", {<<>>})
  /\ FuelStart("idle", {<<>>}, {<<>>})
  /\ PplStart({NoCalls})

WaterNext == load_cost_and_capacity \/ water_compute

SpecWater == WaterInit /\ [][WaterNext]_vars

PlotInit ==
  /\ PlotStart("start", PlotCells)
  /\ WaterStart("idle", {NoWaterCsv})
  /\ CostStart("idle", {<<>>})
  /\ FuelStart("idle", {<<>>}, {<<>>})
  /\ PplStart({NoCalls})

PlotNext ==
  \/ cumulative_costs_setup
  \/ cumulative_costs_full
  \/ cumulative_costs_deficit
  \/ cumulative_costs_return

SpecPlot == PlotInit /\ [][PlotNext]_vars

CostInit ==
  /\ CostStart("start", CostCsvs)
  /\ WaterStart("idle", {NoWaterCsv})
  /\ PlotStart("idle", {NoPlotCsv})
  /\ FuelStart("idle", {<<>>}, {<<>>})
  /\ PplStart({NoCalls})

CostNext ==
  \/ cost_main_load
  \/ cost_main_elevator
  \/ cost_main_ground
  \/ cost_main_write

SpecCost == CostInit /\ [][CostNext]_vars

FuelInit ==
  /\ FuelStart("start", DvCsvs, WsCsvs)
  /\ WaterStart("idle", {NoWaterCsv})
  /\ PlotStart("idle", {NoPlotCsv})
  /\ CostStart("idle", {<<>>})
  /\ PplStart({NoCalls})

FuelNext ==
  \/ fuel_main_load
  \/ fuel_main_begin
  \/ fuel_main_skip_ws
  \/ fuel_main_skip_dv
  \/ fuel_main_add
  \/ fuel_main_end
  \/ fuel_main_write

SpecFuel == FuelInit /\ [][FuelNext]_vars

PplInit ==
  /\ PplStart(PplCalls)
  /\ WaterStart("idle", {NoWaterCsv})
  /\ PlotStart("idle", {NoPlotCsv})
  /\ CostStart("idle", {<<>>})
  /\ FuelStart("idle", {<<>>}, {<<>>})

PplNext == propellant_per_launch_call

SpecPpl == PplInit /\ [][PplNext]_vars

\* ------------------------------------------------------------------------
\* The claims
\* ------------------------------------------------------------------------

\* the float 2^e
Pow2(e) == FRound(FALSE, <<1>>, e, FALSE)

\* a is b up to a relative error of 2^-bits
Within(a, b, bits) == FLe(FAbs(FSub(a, b)), FMul(Pow2(-bits), FAbs(b)))

NonNegative(x) == FLe(FZero, x)

\* C1: cumulative_costs returns the days 0..365 and two cost series of 366
\* entries each; both series start at 0.0 on day 0, and for a non-negative
\* capacity and non-negative costs per ton neither series decreases from a
\* day to the next.
C1_SeriesShape ==
  /\ p_pc \in {"loop", "returned"} =>
       /\ p_elevator_recovery[1] = FZero
       /\ p_ground_recovery[1] = FZero
  /\ p_pc = "returned" =>
       /\ p_days = [i \in 1..366 |-> i - 1]
       /\ Len(p_elevator_recovery) = 366
       /\ Len(p_ground_recovery) = 366
       /\ (/\ NonNegative(p_capacity_per_year)
           /\ NonNegative(p_cost_elev)
           /\ NonNegative(p_cost_ground)) =>
            \A i \in 1..365 :
              /\ FLe(p_elevator_recovery[i], p_elevator_recovery[i + 1])
              /\ FLe(p_ground_recovery[i], p_ground_recovery[i + 1])

\* a run that returned series that grow, on a positive capacity and cost
C1_Witness ==
  /\ p_pc = "returned"
  /\ FLt(FZero, p_capacity_per_year)
  /\ FLt(FZero, p_cost_elev)
  /\ FLt(FZero, p_cost_ground)
  /\ FLt(p_elevator_recovery[1], p_elevator_recovery[2])
  /\ FLt(p_ground_recovery[365], p_ground_recovery[366])

\* C2 (amended): for a non-negative capacity_per_year, the value either
\* series reaches at day 365 is the total_cost of the water schedule model
\* for the same capacity and cost per ton up to the rounding of the 365
\* additions: a relative difference of at most 2^-44, not the same float.
C2_MatchesWaterTotal ==
  (p_pc = "returned" /\ NonNegative(p_capacity_per_year)) =>
    /\ Within(p_elevator_recovery[366],
              water_main(p_cost_elev, p_capacity_per_year).total_cost, 44)
    /\ Within(p_ground_recovery[366],
              water_main(p_cost_ground, p_capacity_per_year).total_cost, 44)

\* a run whose day 365 is close to the total_cost of the water model and is
\* not that float
C2_Witness ==
  /\ p_pc = "returned"
  /\ FLt(FZero, p_capacity_per_year)
  /\ FLt(FZero, p_elevator_recovery[366])
  /\ p_elevator_recovery[366] # water_main(p_cost_elev, p_capacity_per_year).total_cost
  /\ Within(p_elevator_recovery[366],
            water_main(p_cost_elev, p_capacity_per_year).total_cost, 44)

\* C2 as the specification states it: day 365 of either series equals the
\* total_cost of the water schedule model
C2_Original ==
  p_pc = "returned" =>
    /\ p_elevator_recovery[366] = water_main(p_cost_elev, p_capacity_per_year).total_cost
    /\ p_ground_recovery[366] = water_main(p_cost_ground, p_capacity_per_year).total_cost

\* C10 (amended): for every day d in 1..365 the entry of day d is the float
\* sum of the entry of day d - 1 and the float product rate * cost, the rate
\* being capacity_per_year / 365 when d <= 102 and
\* 1,387,000 * (1.0 - 0.90) / 365 when d >= 103, so the phase switches
\* between day 102 and day 103; for a non-negative capacity the entry of day
\* d is cost * (min(d, 102) * capacity_per_day + max(d - 102, 0) *
\* deficit_per_day) up to a relative error of 2^-44.
C10_Increments ==
  p_pc \in {"loop", "returned"} =>
    LET full     == FDiv(p_capacity_per_year, FromInt(365))
        deficit  == FDiv(FMul(Dec(1387000, 0), FSub(Dec(10, 1), Dec(90, 2))), FromInt(365))
        rate(d)  == IF d <= 102 THEN full ELSE deficit
        first(d) == IF d <= 102 THEN d ELSE 102
        rest(d)  == IF d <= 102 THEN 0 ELSE d - 102
        closed(d, cost) ==
          FMul(cost, FAdd(FMul(FromInt(first(d)), full), FMul(FromInt(rest(d)), deficit)))
        \* every day of a run that returned, the day just added of one under way
        days     == IF p_pc = "returned" THEN 1..365 ELSE {p_d - 1} \ {0}
    IN  \A d \in days :
          /\ p_elevator_recovery[d + 1] =
               FAdd(p_elevator_recovery[d], FMul(rate(d), p_cost_elev))
          /\ p_ground_recovery[d + 1] =
               FAdd(p_ground_recovery[d], FMul(rate(d), p_cost_ground))
          /\ NonNegative(p_capacity_per_year) =>
               /\ Within(p_elevator_recovery[d + 1], closed(d, p_cost_elev), 44)
               /\ Within(p_ground_recovery[d + 1], closed(d, p_cost_ground), 44)

\* a run past the switch: day 103 added the deficit rate, not the full one
C10_Witness ==
  /\ p_pc = "loop"
  /\ p_d = 104
  /\ FLt(FZero, p_cost_elev)
  /\ p_capacity_per_day # p_deficit_per_day
  /\ p_elevator_recovery[103] =
       FAdd(p_elevator_recovery[102], FMul(p_capacity_per_day, p_cost_elev))
  /\ p_elevator_recovery[104] =
       FAdd(p_elevator_recovery[103], FMul(p_deficit_per_day, p_cost_elev))
  /\ p_elevator_recovery[104] #
       FAdd(p_elevator_recovery[103], FMul(p_capacity_per_day, p_cost_elev))

\* C10 as the specification states it: the increment of day d is rate * cost
\* with the deficit rate 1,387,000 * 0.10 / 365, and the entry of day d is
\* the closed form
C10_Original ==
  p_pc = "returned" =>
    LET full     == FDiv(p_capacity_per_year, FromInt(365))
        deficit  == FDiv(FMul(Dec(1387000, 0), Dec(10, 2)), FromInt(365))
        rate(d)  == IF d <= 102 THEN full ELSE deficit
        first(d) == IF d <= 102 THEN d ELSE 102
        rest(d)  == IF d <= 102 THEN 0 ELSE d - 102
        closed(d, cost) ==
          FMul(cost, FAdd(FMul(FromInt(first(d)), full), FMul(FromInt(rest(d)), deficit)))
    IN  \A d \in 1..365 :
          /\ FSub(p_elevator_recovery[d + 1], p_elevator_recovery[d]) =
               FMul(rate(d), p_cost_elev)
          /\ p_elevator_recovery[d + 1] = closed(d, p_cost_elev)
          /\ FSub(p_ground_recovery[d + 1], p_ground_recovery[d]) =
               FMul(rate(d), p_cost_ground)
          /\ p_ground_recovery[d + 1] = closed(d, p_cost_ground)

\* C3 (amended): total_delivered is the float sum delivered_full +
\* delivered_deficit and total_cost the float product total_delivered *
\* cost_per_ton; multiplying cost_per_ton by k leaves every delivered and
\* reserve quantity as it is and multiplies total_cost by k up to rounding (a
\* relative difference of at most 2^-50), exactly so when k is a power of two.
C3_TotalsAndScaling ==
  w_pc = "done" =>
    /\ w_out.total_delivered = FAdd(w_out.delivered_full, w_out.delivered_deficit)
    /\ w_out.total_cost = FMul(w_out.total_delivered, w_cost_per_ton)
    /\ \A k \in {Dec(2, 0), Dec(5, 1), Dec(3, 0), Dec(1, 1)} :
         LET scaled == water_main(FMul(k, w_cost_per_ton), w_capacity_per_year)
         IN  /\ \A q \in {"capacity_per_day", "deficit_per_year", "deficit_per_day",
                          "delivered_full", "deficit_full", "reserve_target",
                          "reserve_filled", "remaining_reserve", "delivered_deficit",
                          "total_delivered"} : scaled[q] = w_out[q]
             /\ Within(scaled.total_cost, FMul(k, w_out.total_cost), 50)
             /\ k \in {Dec(2, 0), Dec(5, 1)} =>
                  scaled.total_cost = FMul(k, w_out.total_cost)

\* a run with a cost: both phases delivered, the total cost is their product
C3_Witness ==
  /\ w_pc = "done"
  /\ FLt(FZero, w_out.delivered_full)
  /\ FLt(FZero, w_out.delivered_deficit)
  /\ FLt(w_out.delivered_full, w_out.total_delivered)
  /\ FLt(FZero, w_out.total_cost)

\* C3 as the specification states it: k times the cost per ton gives k times
\* the total cost
C3_Original ==
  w_pc = "done" =>
    /\ w_out.total_delivered = FAdd(w_out.delivered_full, w_out.delivered_deficit)
    /\ w_out.total_cost = FMul(w_out.total_delivered, w_cost_per_ton)
    /\ \A k \in {Dec(2, 0), Dec(5, 1), Dec(3, 0), Dec(1, 1)} :
         water_main(FMul(k, w_cost_per_ton), w_capacity_per_year).total_cost =
           FMul(k, w_out.total_cost)

\* C4: reserve_filled is max(0, delivered_full - deficit_full) and
\* remaining_reserve is max(0, reserve_target - reserve_filled); neither is
\* ever negative, whatever the capacity.
C4_ReservesClamped ==
  w_pc = "done" =>
    LET filled    == FSub(w_out.delivered_full, w_out.deficit_full)
        remaining == FSub(w_out.reserve_target, w_out.reserve_filled)
    IN  /\ w_out.reserve_filled = (IF FLt(FZero, filled) THEN filled ELSE FZero)
        /\ w_out.remaining_reserve = (IF FLt(FZero, remaining) THEN remaining ELSE FZero)
        /\ NonNegative(w_out.reserve_filled)
        /\ NonNegative(w_out.remaining_reserve)

\* a capacity so small that phase 1 delivers less than its deficit: the
\* reserve is clamped at 0
C4_Witness ==
  /\ w_pc = "done"
  /\ FLt(FZero, w_capacity_per_year)
  /\ FLt(w_out.delivered_full, w_out.deficit_full)
  /\ w_out.reserve_filled = FZero
  /\ w_out.remaining_reserve = w_out.reserve_target

C6_SiteStep ==
  [][/\ (f_pc = "site" /\ f_site <= Len(f_ws_map)) =>
          LET site == f_ws_map[f_site]
              isp  == ENGINE_TYPES[f_fuel]
          IN  /\ f_pc' = "site"
              /\ f_site' = f_site + 1
              /\ IF site.ws > 0 /\ site.slug \in DOMAIN f_dv_map
                 THEN /\ f_total_atm' =
                           FAdd(f_total_atm,
                                FMul(propellant_per_launch(f_dv_map[site.slug][1], isp.isp_sea),
                                     FromInt(site.ws * 134 * 65)))
                      /\ f_total_vac' =
                           FAdd(f_total_vac,
                                FMul(propellant_per_launch(f_dv_map[site.slug][2], isp.isp_vac),
                                     FromInt(site.ws * 134 * 65)))
                 ELSE UNCHANGED <<f_total_atm, f_total_vac>>
     /\ ~(f_pc = "site" /\ f_site <= Len(f_ws_map)) =>
          \/ UNCHANGED <<f_total_atm, f_total_vac>>
          \/ f_pc = "fuel" /\ f_total_atm' = FZero /\ f_total_vac' = FZero]_vars

\* the sites of a fuel are done: one added to the totals, one had no
\* workstation, one no delta-v record, and one delta-v record no site
C6_Witness ==
  /\ f_pc = "site"
  /\ f_site > Len(f_ws_map)
  /\ FLt(FZero, f_total_atm)
  /\ FLt(FZero, f_total_vac)
  /\ \E i \in 1..Len(f_ws_map) : f_ws_map[i].ws <= 0
  /\ \E i \in 1..Len(f_ws_map) :
       f_ws_map[i].ws > 0 /\ f_ws_map[i].slug \notin DOMAIN f_dv_map
  /\ \E s \in DOMAIN f_dv_map : \A i \in 1..Len(f_ws_map) : f_ws_map[i].slug # s

\* C7: the CO2 of a fuel is (atmospheric total + vacuum total) times its
\* factor, 1.47 for kerosene, 1.08 for methane, 1.66 for hydrogen; the run
\* writes exactly one row for each of the three fuels, with three decimals,
\* all of them zero when no site qualifies.
C7_Co2Rows ==
  LET factor(fuel) == CASE fuel = "kerosene" -> Dec(147, 2)
                        [] fuel = "methane"  -> Dec(108, 2)
                        [] fuel = "hydrogen" -> Dec(166, 2)
      qualifies(i) == f_ws_map[i].ws > 0 /\ f_ws_map[i].slug \in DOMAIN f_dv_map
  IN  /\ \A i \in 1..Len(f_totals) :
           f_totals[i][4] =
             FMul(FAdd(f_totals[i][2], f_totals[i][3]), factor(f_totals[i][1]))
      /\ f_pc = "done" =>
           /\ Len(f_totals) = 3
           /\ Len(f_written) = 3
           /\ {f_written[i][1] : i \in 1..3} = {"kerosene", "methane", "hydrogen"}
           /\ \A i \in 1..3 :
                /\ f_written[i][1] = f_totals[i][1]
                /\ \A j \in 2..4 : f_written[i][j] = FormatFixed(f_totals[i][j], 3)
           /\ (\A i \in 1..Len(f_ws_map) : ~qualifies(i)) =>
                \A i \in 1..3 : \A j \in 2..4 :
                  f_totals[i][j] = FZero /\ f_written[i][j].n = <<>>

\* a run that wrote its three rows, each with propellant and CO2
C7_Witness ==
  /\ f_pc = "done"
  /\ Len(f_written) = 3
  /\ \A i \in 1..3 :
       /\ FLt(FZero, f_totals[i][2])
       /\ FLt(FZero, f_totals[i][3])
       /\ FLt(f_totals[i][2], f_totals[i][4])

C9_Capped ==
  \A i \in 1..Len(q_results) : FLe(q_results[i], FromInt(1125))

====
